---- MODULE Spec2Model ----
(***************************************************************************)
(* A model of benchmark.py of apple/ml-fastvlm: the placeholder accuracy   *)
(* metric simple_accuracy, the folder-backed ImageFolderDataset, the       *)
(* runner run_benchmark and the command-line entry point.                  *)
(*                                                                         *)
(* Strings whose characters matter (predictions, references) are sequences *)
(* of one-character strings.  A float quotient a / b is kept exactly, as   *)
(* the record [num |-> a, den |-> b].  A Python exception is the record    *)
(* [err |-> name].  None is the record [none |-> TRUE].                    *)
(***************************************************************************)
EXTENDS Integers, Sequences, FiniteSets, TLC

VARIABLES
    predictions,   \* simple_accuracy's first argument; run_benchmark's list
    references,    \* simple_accuracy's second argument; run_benchmark's list
    acc,           \* what simple_accuracy returned (None before the call)
    dir,           \* the entries of the image directory on disk
    datasets,      \* ImageFolderDataset objects: id -> self.files (None before __init__)
    ret,           \* what the last __len__ / __getitem__ call did
    firstGet,      \* history: the first successful __getitem__ call, and whether
                   \* the same index of the same dataset was read again
    files0,        \* history: id -> self.files as __init__ left it
    pc,            \* run_benchmark's position
    loaded,        \* build_model_and_transforms returned
    stub,          \* the model's generate always returns ["a photo"]
    dataset,       \* run_benchmark's dataset (its self.files)
    batch,         \* number of batches the dataloader has handed out
    paths,         \* the loop variable paths (the current sample's path string)
    ttft,          \* the loop variable ttft
    output,        \* the loop variable output
    total_time,    \* latency accumulator
    total_ttft,    \* TTFT accumulator
    genCalls,      \* history: the path of every sample handed to model.generate
    printed,       \* the summary was printed
    result,        \* the record run_benchmark returned
    exc,           \* the exception that left run_benchmark
    argv,          \* the command line
    args,          \* the argparse Namespace
    mainPc,        \* the entry point's position
    called,        \* the arguments run_benchmark was invoked with by __main__
    exitCode       \* the process exit code

accVars  == <<predictions, references, acc>>
dsVars   == <<dir, datasets, ret, firstGet, files0>>
runVars  == <<pc, loaded, stub, dataset, batch, paths, ttft, output,
              total_time, total_ttft, genCalls, printed, result, exc>>
mainVars == <<argv, args, mainPc, called, exitCode>>
vars     == <<accVars, dsVars, runVars, mainVars>>

None == [none |-> TRUE]
Err(name) == [err |-> name]
IsErr(v) == "err" \in DOMAIN v

Min(a, b) == IF a < b THEN a ELSE b

----------------------------------------------------------------------------
(* Strings and the string methods simple_accuracy uses.                    *)

Whitespace == {" ", "\t", "\n"}

\* str.lower() on the characters the model uses.
LowerChar(c) ==
    CASE c = "A" -> "a"
      [] c = "C" -> "c"
      [] c = "P" -> "p"
      [] OTHER -> c

lower(s) == [k \in 1..Len(s) |-> LowerChar(s[k])]

RECURSIVE lstrip(_)
lstrip(s) ==
    IF s # <<>> /\ Head(s) \in Whitespace THEN lstrip(Tail(s)) ELSE s

RECURSIVE rstrip(_)
rstrip(s) ==
    IF s # <<>> /\ s[Len(s)] \in Whitespace
    THEN rstrip(SubSeq(s, 1, Len(s) - 1))
    ELSE s

\* A strip() that forgets the trailing whitespace.
strip_left_only(s) == lstrip(s)

strip(s) == rstrip(lstrip(s))

\* Python's true division a / b.
Div(a, b) == IF b = 0 THEN Err("ZeroDivisionError") ELSE [num |-> a, den |-> b]

\* The float 0.0.
Zero == [num |-> 0, den |-> 1]

\* zip(p, r): pairs up to the shorter argument.
zip(p, r) == [k \in 1..Min(Len(p), Len(r)) |-> <<p[k], r[k]>>]

\* sum() of a list of booleans.
RECURSIVE sum(_)
sum(bs) == IF bs = <<>> THEN 0 ELSE (IF Head(bs) THEN 1 ELSE 0) + sum(Tail(bs))

\* p.lower().strip() == r.lower().strip()
Matches(p, r) == strip(lower(p)) = strip(lower(r))

simple_accuracy(p, r) ==
    LET pairs   == zip(p, r)
        correct == sum([k \in 1..Len(pairs) |-> Matches(pairs[k][1], pairs[k][2])])
    IN  IF p # <<>> THEN Div(correct, Len(p)) ELSE Zero

----------------------------------------------------------------------------
(* Inputs of the accuracy metric.                                          *)

MaxLen == 2

APhoto == <<"a", " ", "p", "h", "o", "t", "o">>

StrPool ==
    { <<>>,
      <<" ">>,
      APhoto,
      <<" ", "A", " ", "P", "h", "o", "t", "o", "\t">>,
      <<"a", "p", "h", "o", "t", "o">>,
      <<"C", "a", "t">>,
      <<"c", "a", "t", " ">>,
      <<"\n", "c", "a", "t">> }

----------------------------------------------------------------------------
(* The image directory and ImageFolderDataset.                             *)

\* A directory entry: its name (stem + suffix) and what it is on disk.
\*   "image"   a file that decodes as an image
\*   "corrupt" a file that does not decode as an image
\*   "other"   a file that is no image at all
\*   "dir"     a subdirectory
Entry(stem, suffix, kind) == [stem |-> stem, suffix |-> suffix, kind |-> kind]

Universe ==
    { Entry("a", ".jpg", "image"),
      Entry("b", ".jpg", "image"),
      Entry("c", ".png", "image"),
      Entry("d", ".JPG", "image"),
      Entry("e", ".jpg", "dir"),
      Entry("f", ".txt", "other") }

ImgDir == "imgs"

\* Path(img_dir) / name
Path(parent, e) == [parent |-> parent, stem |-> e.stem, suffix |-> e.suffix]

\* str(path)
Str(p) == <<p.parent, "/", p.stem, p.suffix>>

\* Every order in which the elements of S can be listed.
Perms(S) ==
    { f \in [1..Cardinality(S) -> S] : \A e \in S : \E k \in DOMAIN f : f[k] = e }

\* list(img_dir.glob("*" + suffix)): the entries of d whose name ends in suffix
\* (files and subdirectories alike, compared case-sensitively), in whatever
\* order the directory scan yields them.
glob(d, parent, suffix) ==
    LET hits == { Path(parent, e) : e \in { x \in d : x.suffix = suffix } }
    IN  Perms(hits)

\* ImageFolderDataset.__init__: the values self.files can take.
init_files(d, parent) ==
    { jpg \o png : jpg \in glob(d, parent, ".jpg"), png \in glob(d, parent, ".png") }

\* ImageFolderDataset.__len__
len(fs) == Len(fs)

\* Python list indexing fs[idx].
ListIndex(fs, idx) ==
    LET n == Len(fs)
    IN  IF 0 <= idx /\ idx < n THEN fs[idx + 1]
        ELSE IF -n <= idx /\ idx < 0 THEN fs[n + idx + 1]
        ELSE Err("IndexError")

\* Image.open(img_path).convert("RGB") followed by self.transform(img).
OpenImage(d, p) ==
    LET es == { e \in d : e.stem = p.stem /\ e.suffix = p.suffix }
    IN  IF es = {} THEN Err("FileNotFoundError")
        ELSE LET e == CHOOSE x \in es : TRUE
             IN  CASE e.kind = "image" -> [tensor |-> <<e.stem, e.suffix>>]
                   [] e.kind = "dir"   -> Err("IsADirectoryError")
                   [] OTHER            -> Err("UnidentifiedImageError")

\* A __getitem__ that takes the file out of self.files (self.files.pop(idx)).
getitem_pop(d, fs, idx) ==
    LET img_path == ListIndex(fs, idx)
        img      == IF IsErr(img_path) THEN img_path ELSE OpenImage(d, img_path)
        at       == IF idx < 0 THEN Len(fs) + idx + 1 ELSE idx + 1
    IN  [files |-> IF IsErr(img_path) THEN fs
                   ELSE SubSeq(fs, 1, at - 1) \o SubSeq(fs, at + 1, Len(fs)),
         val   |-> IF IsErr(img) THEN img
                   ELSE [tensor |-> img.tensor, path |-> Str(img_path)]]

\* ImageFolderDataset.__getitem__: self.files afterwards and the value returned
\* (or the exception raised).
getitem(d, fs, idx) ==
    LET img_path == ListIndex(fs, idx)
        img      == IF IsErr(img_path) THEN img_path ELSE OpenImage(d, img_path)
    IN  [files |-> fs,
         val   |-> IF IsErr(img) THEN img
                   ELSE [tensor |-> img.tensor, path |-> Str(img_path)]]

DS == {1, 2}

\* An ImageFolderDataset object: whether __init__ has run, and self.files.
Unbuilt == [built |-> FALSE, files |-> <<>>]
Built(fs) == [built |-> TRUE, files |-> fs]

MaxIdx == 4

Idx == (0 - MaxIdx)..MaxIdx

DatasetIdle ==
    /\ datasets = [d \in DS |-> Unbuilt]
    /\ files0 = [d \in DS |-> Unbuilt]
    /\ ret = None
    /\ firstGet = None

Construct(d) ==
    /\ ~datasets[d].built
    /\ \E fs \in init_files(dir, ImgDir) :
          /\ datasets' = [datasets EXCEPT ![d] = Built(fs)]
          /\ files0' = [files0 EXCEPT ![d] = Built(fs)]
    /\ UNCHANGED <<dir, ret, firstGet>>
    /\ UNCHANGED <<accVars, runVars, mainVars>>

CallLen(d) ==
    /\ datasets[d].built
    /\ ret' = [op |-> "len", ds |-> d, idx |-> 0, val |-> len(datasets[d].files)]
    /\ UNCHANGED <<dir, datasets, files0, firstGet>>
    /\ UNCHANGED <<accVars, runVars, mainVars>>

CallGetItem(d, idx) ==
    /\ datasets[d].built
    /\ LET r == getitem(dir, datasets[d].files, idx)
       IN  /\ datasets' = [datasets EXCEPT ![d] = Built(r.files)]
           /\ ret' = [op |-> "getitem", ds |-> d, idx |-> idx, val |-> r.val]
           /\ firstGet' =
                 IF IsErr(r.val) THEN firstGet
                 ELSE IF firstGet = None
                 THEN [ds |-> d, idx |-> idx, path |-> r.val.path, again |-> FALSE]
                 ELSE IF firstGet.ds = d /\ firstGet.idx = idx
                 THEN [firstGet EXCEPT !.again = TRUE]
                 ELSE firstGet
    /\ UNCHANGED <<dir, files0>>
    /\ UNCHANGED <<accVars, runVars, mainVars>>

----------------------------------------------------------------------------
(* run_benchmark.                                                          *)

RunUniverse ==
    { Entry("a", ".jpg", "image"),
      Entry("b", ".jpg", "image"),
      Entry("c", ".png", "image"),
      Entry("e", ".jpg", "dir"),
      Entry("g", ".png", "corrupt") }

MaxTtft == 2

\* The elapsed times time.time() - start can measure, in clock ticks.
Times == 0..MaxTtft

\* What a model's generate can return: a list of strings, possibly empty.
GenOutputs ==
    { <<APhoto>>,
      <<<<" ", "A", " ", "P", "h", "o", "t", "o", "\t">>>>,
      <<<<"C", "a", "t">>>>,
      <<>> }

\* A sampler that walks the dataset backwards.
ReversedSampler(n, k) == n - 1 - k

\* DataLoader(dataset, batch_size=1, shuffle=False): the dataset index the
\* k-th batch (counted from 0) of a dataset of n samples is read from.
SamplerIndex(n, k) == k

\* An exception caught and skipped over: the run goes on with what follows.
Swallow(e) ==
    /\ pc' = (IF pc = "start" THEN "dataset" ELSE "loop")
    /\ exc' = e

\* An exception leaves run_benchmark: nothing in it catches one.
Raise(e) ==
    /\ pc' = "raised"
    /\ exc' = e

\* A latency accumulator that is never added to.
AccumulateLatencyDropped(total, t) == total

\* total_time += ttft
AccumulateLatency(total, t) == total + t

RunIdle ==
    /\ pc = "idle"
    /\ loaded = FALSE
    /\ stub = FALSE
    /\ dataset = Unbuilt
    /\ batch = 0
    /\ paths = <<>>
    /\ ttft = 0
    /\ output = <<>>
    /\ total_time = 0
    /\ total_ttft = 0
    /\ genCalls = <<>>
    /\ printed = FALSE
    /\ result = None
    /\ exc = None

\* Lines 46-51: build_model_and_transforms returns, and model.eval().
LoadModel ==
    /\ pc = "start"
    /\ loaded' = TRUE
    /\ pc' = "dataset"
    /\ UNCHANGED <<stub, dataset, batch, paths, ttft, output, total_time,
                   total_ttft, genCalls, printed, result, exc>>
    /\ UNCHANGED <<accVars, dsVars, mainVars>>

\* Lines 46-51: build_model_and_transforms (or model.eval()) raises.
LoadModelFails ==
    /\ pc = "start"
    /\ Raise(Err("LoadError"))
    /\ UNCHANGED <<loaded, stub, dataset, batch, paths, ttft, output, total_time,
                   total_ttft, genCalls, printed, result>>
    /\ UNCHANGED <<accVars, dsVars, mainVars>>

\* Lines 53-57: the dataset, the dataloader, the accumulators and the lists.
MakeDataset ==
    /\ pc = "dataset"
    /\ \E fs \in init_files(dir, ImgDir) : dataset' = Built(fs)
    /\ total_time' = 0
    /\ total_ttft' = 0
    /\ predictions' = <<>>
    /\ references' = <<>>
    /\ pc' = "loop"
    /\ UNCHANGED <<loaded, stub, batch, paths, ttft, output, genCalls, printed,
                   result, exc, acc>>
    /\ UNCHANGED <<dsVars, mainVars>>

\* Line 59: the dataloader hands out the next batch (dataset[index], collated).
NextBatch ==
    /\ pc = "loop"
    /\ batch < len(dataset.files)
    /\ LET r == getitem(dir, dataset.files, SamplerIndex(len(dataset.files), batch))
       IN  /\ dataset' = Built(r.files)
           /\ IF IsErr(r.val)
              THEN /\ Raise(r.val)
                   /\ UNCHANGED <<batch, paths>>
              ELSE /\ pc' = "generate"
                   /\ batch' = batch + 1
                   /\ paths' = r.val.path
                   /\ UNCHANGED exc
    /\ UNCHANGED <<loaded, stub, ttft, output, total_time, total_ttft, genCalls,
                   printed, result>>
    /\ UNCHANGED <<accVars, dsVars, mainVars>>

\* Lines 60-67: model.generate returns; its time goes to the TTFT accumulator.
Generate ==
    /\ pc = "generate"
    /\ genCalls' = Append(genCalls, paths)
    /\ \E out \in (IF stub THEN {<<APhoto>>} ELSE GenOutputs), t \in Times :
          /\ output' = out
          /\ ttft' = t
          /\ total_ttft' = total_ttft + t
    /\ pc' = "record"
    /\ UNCHANGED <<loaded, stub, dataset, batch, paths, total_time, printed,
                   result, exc>>
    /\ UNCHANGED <<accVars, dsVars, mainVars>>

\* Lines 60-65: images.to(device) or model.generate raises.
GenerateFails ==
    /\ pc = "generate"
    /\ ~stub
    /\ genCalls' = Append(genCalls, paths)
    /\ Raise(Err("RuntimeError"))
    /\ UNCHANGED <<loaded, stub, dataset, batch, paths, ttft, output, total_time,
                   total_ttft, printed, result>>
    /\ UNCHANGED <<accVars, dsVars, mainVars>>

\* Lines 70-73: the prediction, the placeholder reference, the latency accumulator.
Record ==
    /\ pc = "record"
    /\ IF output = <<>>
       THEN /\ Raise(Err("IndexError"))
            /\ UNCHANGED <<predictions, references, total_time>>
       ELSE /\ predictions' = Append(predictions, output[1])
            /\ references' = Append(references, APhoto)
            /\ total_time' = AccumulateLatency(total_time, ttft)
            /\ pc' = "loop"
            /\ UNCHANGED exc
    /\ UNCHANGED <<loaded, stub, dataset, batch, paths, ttft, output, total_ttft,
                   genCalls, printed, result, acc>>
    /\ UNCHANGED <<dsVars, mainVars>>

\* Lines 75-90: the averages, the accuracy, the printed summary, the result.
Finish ==
    /\ pc = "loop"
    /\ batch >= len(dataset.files)
    /\ LET avg_ttft    == Div(total_ttft, len(dataset.files))
           avg_latency == Div(total_time, len(dataset.files))
       IN  IF IsErr(avg_ttft)
           THEN /\ Raise(avg_ttft)
                /\ UNCHANGED <<acc, printed, result>>
           ELSE /\ acc' = simple_accuracy(predictions, references)
                /\ printed' = TRUE
                /\ result' = [images      |-> len(dataset.files),
                              avg_ttft    |-> avg_ttft,
                              avg_latency |-> avg_latency,
                              accuracy    |-> acc']
                /\ pc' = "done"
                /\ UNCHANGED exc
    /\ UNCHANGED <<loaded, stub, dataset, batch, paths, ttft, output, total_time,
                   total_ttft, genCalls, predictions, references>>
    /\ UNCHANGED <<dsVars, mainVars>>

----------------------------------------------------------------------------
(* The command-line entry point.                                           *)

Absent == "<absent>"

ModelPaths == {"ckpt/fastvlm_0.5b", "ckpt/fastvlm_1.5b", "ckpt/missing"}
ImgDirs    == {ImgDir, "empty", "nowhere"}
Devices    == {"cuda", "cpu", "mps"}

\* getattr(ns, name) on an argparse Namespace.
GetAttr(ns, name) ==
    IF name \in DOMAIN ns THEN [val |-> ns[name]] ELSE Err("AttributeError")

\* left - right, where right is the builtin function dir: no str supports it.
SubDir(left) == IF IsErr(left) THEN left ELSE Err("TypeError")

\* parser.parse_args(): add_argument("--img-dir") stores under "img_dir".
parse_args(av) ==
    IF av.model = Absent \/ av.img_dir = Absent
    THEN Err("SystemExit")
    ELSE [model   |-> av.model,
          img_dir |-> av.img_dir,
          device  |-> IF av.device = Absent THEN "cuda" ELSE av.device]

\* The arguments of the call at line 101, evaluated left to right:
\* args.model, args.img - dir, args.device.
call_arguments(ns) ==
    LET a1 == GetAttr(ns, "model")
        a2 == SubDir(GetAttr(ns, "img"))
        a3 == GetAttr(ns, "device")
    IN  IF IsErr(a1) THEN a1
        ELSE IF IsErr(a2) THEN a2
        ELSE IF IsErr(a3) THEN a3
        ELSE [model_path |-> a1.val, img_dir |-> a2.val, device |-> a3.val]

\* Lines 95-99, the command line accepted.
ParseArgs ==
    /\ mainPc = "parse"
    /\ ~IsErr(parse_args(argv))
    /\ args' = parse_args(argv)
    /\ mainPc' = "call"
    /\ UNCHANGED <<argv, called, exitCode>>
    /\ UNCHANGED <<accVars, dsVars, runVars>>

\* Lines 95-99, the command line refused: argparse prints usage and exits with 2.
ParseArgsFails ==
    /\ mainPc = "parse"
    /\ IsErr(parse_args(argv))
    /\ mainPc' = "exited"
    /\ exitCode' = [code |-> 2]
    /\ UNCHANGED <<argv, args, called>>
    /\ UNCHANGED <<accVars, dsVars, runVars>>

\* Line 101: the call's arguments are evaluated and run_benchmark is entered, or
\* the exception their evaluation raises ends the process with status 1.
CallRunBenchmark ==
    /\ mainPc = "call"
    /\ LET a == call_arguments(args)
       IN  IF IsErr(a)
           THEN /\ mainPc' = "exited"
                /\ exitCode' = [code |-> 1]
                /\ exc' = a
                /\ UNCHANGED <<called, pc>>
           ELSE /\ mainPc' = "running"
                /\ called' = a
                /\ pc' = "start"
                /\ UNCHANGED <<exitCode, exc>>
    /\ UNCHANGED <<argv, args>>
    /\ UNCHANGED <<loaded, stub, dataset, batch, paths, ttft, output, total_time,
                   total_ttft, genCalls, printed, result>>
    /\ UNCHANGED <<accVars, dsVars>>

----------------------------------------------------------------------------
(* Specifications.                                                         *)

\* The values the variables of a part of the program hold while a
\* specification exercises another part.
AccIdle ==
    /\ predictions = <<>>
    /\ references = <<>>
    /\ acc = None

MainIdle ==
    /\ argv = None
    /\ args = None
    /\ mainPc = "idle"
    /\ called = None
    /\ exitCode = None

\* simple_accuracy on every pair of equal-length lists drawn from StrPool.
InitAcc ==
    /\ dir = {}
    /\ DatasetIdle
    /\ RunIdle
    /\ MainIdle
    /\ \E n \in 0..MaxLen :
          /\ predictions \in [1..n -> StrPool]
          /\ references \in [1..n -> StrPool]
    /\ acc = None

CallSimpleAccuracy ==
    /\ acc = None
    /\ acc' = simple_accuracy(predictions, references)
    /\ UNCHANGED <<predictions, references>>
    /\ UNCHANGED <<dsVars, runVars, mainVars>>

NextAcc == CallSimpleAccuracy

SpecAcc == InitAcc /\ [][NextAcc]_vars

\* Two dataset objects over one directory, and any calls on them.
InitDataset ==
    /\ dir \in SUBSET Universe
    /\ DatasetIdle
    /\ AccIdle
    /\ RunIdle
    /\ MainIdle

NextDataset ==
    \/ \E d \in DS : Construct(d)
    \/ \E d \in DS : CallLen(d)
    \/ \E d \in DS, idx \in Idx : CallGetItem(d, idx)

SpecDataset == InitDataset /\ [][NextDataset]_vars

\* run_benchmark called on a directory, with a stub model or any model.
InitRun ==
    /\ dir \in SUBSET RunUniverse
    /\ DatasetIdle
    /\ AccIdle
    /\ MainIdle
    /\ pc = "start"
    /\ loaded = FALSE
    /\ stub \in BOOLEAN
    /\ dataset = Unbuilt
    /\ batch = 0
    /\ paths = <<>>
    /\ ttft = 0
    /\ output = <<>>
    /\ total_time = 0
    /\ total_ttft = 0
    /\ genCalls = <<>>
    /\ printed = FALSE
    /\ result = None
    /\ exc = None

NextRun ==
    \/ LoadModel
    \/ LoadModelFails
    \/ MakeDataset
    \/ NextBatch
    \/ Generate
    \/ GenerateFails
    \/ Record
    \/ Finish

SpecRun == InitRun /\ [][NextRun]_vars

\* The script started with any command line.
InitMain ==
    /\ dir = {}
    /\ DatasetIdle
    /\ AccIdle
    /\ RunIdle
    /\ argv \in [model   : ModelPaths \cup {Absent},
                 img_dir : ImgDirs \cup {Absent},
                 device  : Devices \cup {Absent}]
    /\ args = None
    /\ mainPc = "parse"
    /\ called = None
    /\ exitCode = None

NextMain ==
    \/ ParseArgs
    \/ ParseArgsFails
    \/ CallRunBenchmark

SpecMain == InitMain /\ [][NextMain]_vars

----------------------------------------------------------------------------
(* Claims.                                                                 *)

\* C1: run_benchmark on a directory with no recognized image file (dataset
\* count 0) ends with a defined, descriptive error, not with the division
\* fault of dividing the accumulators by the dataset length.
CexC1 ==
    (dataset.built /\ len(dataset.files) = 0 /\ pc \in {"done", "raised"})
        => (pc = "raised" /\ exc # Err("ZeroDivisionError"))

\* C2: __getitem__ at any index outside [0, N), negative ones included, fails
\* with a bounds error and returns no sample.
CexC2 ==
    (/\ ret # None
     /\ ret.op = "getitem"
     /\ (ret.idx < 0 \/ ret.idx >= Len(datasets[ret.ds].files)))
        => ret.val = Err("IndexError")

\* C3: started with --model and --img-dir, the entry point invokes
\* run_benchmark with exactly the parsed model path, image directory and
\* device, and a non-zero exit code comes only from a failure of the run.
CexC3 ==
    (mainPc = "exited" /\ argv.model # Absent /\ argv.img_dir # Absent)
        => /\ called = [model_path |-> args.model,
                        img_dir    |-> args.img_dir,
                        device     |-> args.device]
           /\ (exitCode.code # 0 => pc = "raised")

\* C4: two constructions of ImageFolderDataset over the same unchanged
\* directory hold the same sequence of file paths, whatever order the directory
\* scan yields entries in.
CexC4 ==
    (datasets[1].built /\ datasets[2].built)
        => datasets[1].files = datasets[2].files

\* The files of the directory with a recognized extension.
RecognizedFiles(d) == { e \in d : e.kind # "dir" /\ e.suffix \in {".jpg", ".png"} }

\* C5: the dataset count equals the number of files of the directory with a
\* recognized extension; no other entry of the directory is counted.
CexC5 ==
    (ret # None /\ ret.op = "len") => ret.val = Cardinality(RecognizedFiles(dir))

\* Case folding and trimming, stated position by position.
FoldTable == [c \in {"A", "C", "P"} |-> IF c = "A" THEN "a" ELSE IF c = "C" THEN "c" ELSE "p"]
FoldChar(c) == IF c \in DOMAIN FoldTable THEN FoldTable[c] ELSE c
CaseFoldTrim(s) ==
    LET keep == { k \in 1..Len(s) : s[k] \notin {" ", "\t", "\n"} }
    IN  IF keep = {} THEN <<>>
        ELSE LET lo == CHOOSE k \in keep : \A j \in keep : k <= j
                 hi == CHOOSE k \in keep : \A j \in keep : j <= k
             IN  [k \in 1..(hi - lo + 1) |-> FoldChar(s[lo + k - 1])]

MatchingPositions ==
    { k \in 1..Len(predictions) :
        CaseFoldTrim(predictions[k]) = CaseFoldTrim(references[k]) }

\* C6: simple_accuracy returns the number of positions whose case-folded,
\* trimmed prediction equals the case-folded, trimmed reference, divided by the
\* length; 0 and no division fault on empty input; always within [0, 1].
ThmC6 ==
    acc # None =>
        /\ ~IsErr(acc)
        /\ 0 <= acc.num /\ acc.num <= acc.den /\ acc.den > 0
        /\ IF predictions = <<>>
           THEN acc.num = 0
           ELSE /\ acc.num = Cardinality(MatchingPositions)
                /\ acc.den = Len(predictions)

\* C6 happens: one of two pairs matches, and only after folding and trimming
\* on the right-hand end.
WitC6 ==
    /\ acc # None
    /\ Len(predictions) = 2
    /\ acc.num = 1
    /\ acc.den = 2
    /\ predictions[1] = <<"C", "a", "t">>
    /\ references[1] = <<"c", "a", "t", " ">>

\* C7: the TTFT accumulator and the latency accumulator are equal after every
\* loop iteration, and avg_ttft equals avg_latency in every returned result.
ThmC7 ==
    /\ pc \in {"loop", "generate", "done"} => total_ttft = total_time
    /\ result # None => result.avg_ttft = result.avg_latency

WitC7 ==
    /\ pc = "done"
    /\ result.images >= 2
    /\ result.avg_ttft.num >= 1
    /\ result.avg_latency = result.avg_ttft

\* Whether every file of the list decodes as an image.
AllValid(d, fs) == \A k \in 1..Len(fs) : ~IsErr(OpenImage(d, fs[k]))

\* C8: with N >= 1 valid images and a model that always returns ["a photo"],
\* generate is called once per sample in dataset order, one prediction and
\* one reference are appended per call, and the result has images = N and
\* accuracy 1.0.
ThmC8 ==
    (stub /\ dataset.built /\ len(dataset.files) >= 1 /\ AllValid(dir, dataset.files))
        => /\ pc # "raised"
           /\ Len(genCalls) <= len(dataset.files)
           /\ \A k \in 1..Len(genCalls) : genCalls[k] = Str(dataset.files[k])
           /\ Len(predictions) = Len(references)
           /\ Len(predictions) = (IF pc = "record" THEN Len(genCalls) - 1 ELSE Len(genCalls))
           /\ pc = "done" =>
                 /\ Len(genCalls) = len(dataset.files)
                 /\ result.images = len(dataset.files)
                 /\ result.accuracy.num = result.accuracy.den
                 /\ result.accuracy.den = len(dataset.files)

WitC8 ==
    /\ stub
    /\ pc = "done"
    /\ result.images = 3
    /\ Len(genCalls) = 3
    /\ result.accuracy = [num |-> 3, den |-> 3]

\* C9: a failure of model loading, of generate or of the image access leaves
\* run_benchmark and ends the run: no later sample is processed, generate is
\* not called again, nothing is printed and no result is returned.
ThmC9 ==
    /\ [](exc # None => (pc = "raised" /\ result = None /\ ~printed))
    /\ [][exc # None => UNCHANGED <<runVars, accVars>>]_vars

\* C9 happens: generate fails on the second sample.
WitC9 ==
    /\ pc = "raised"
    /\ exc = Err("RuntimeError")
    /\ Len(genCalls) = 2
    /\ Len(predictions) = 1
    /\ len(dataset.files) = 3

\* C10: after construction self.files never changes, whatever calls are made:
\* the count is the file count at construction and a valid index read again
\* gives the same path string.
ThmC10 ==
    /\ \A d \in DS : datasets[d] = files0[d]
    /\ (ret # None /\ ret.op = "len") => ret.val = Len(files0[ret.ds].files)
    /\ (/\ ret # None
        /\ ret.op = "getitem"
        /\ ~IsErr(ret.val)
        /\ firstGet # None
        /\ firstGet.ds = ret.ds
        /\ firstGet.idx = ret.idx) => ret.val.path = firstGet.path

\* C10 happens: an index was read twice and a failing access came last.
WitC10 ==
    /\ firstGet # None
    /\ firstGet.again
    /\ ret.op = "getitem"
    /\ IsErr(ret.val)
    /\ Len(datasets[ret.ds].files) >= 2

====
